---- MODULE Spec2Model ----
(***************************************************************************)
(* Callout Control (obsidian-callout-control, src/main.js): the callout    *)
(* parser, the header-line rewrite, the scope/mode operation engine and    *)
(* the visual (DOM) patching, the settings and the command registry, as a  *)
(* state machine; and the CalloutSyncService of the earlier revision,      *)
(* src/unnamed/part_002.                                                   *)
(*                                                                         *)
(* A line of text is a sequence of one-character strings; the editor       *)
(* buffer is a sequence of lines.  Line numbers are 0-based as in the      *)
(* source: At(s, i) reads the i-th entry of a JavaScript array.            *)
(***************************************************************************)
EXTENDS Integers, Sequences, FiniteSets, TLC

VARIABLES
    lines,       \* the editor buffer, one entry per line (editor.getValue().split('\n'))
    callouts,    \* result of the last CalloutParser.parseDocument call
    parsed,      \* TRUE once parseDocument has run on the buffer
    elements,    \* rendered '.callout' elements under the editor root, in DOM order
    prevLines,   \* the buffer before the last operation
    prevElements,\* the rendered elements before the last operation
    lastOp,      \* the last operation request: scope, mode, modifyMarkdown, cursor line
    requests,    \* editor.replaceRange requests issued by the last operation, in issue order
    opCount,     \* number of operations applied so far
    firstLines,  \* the buffer before the first operation
    rawLine,     \* header line under rewrite (Callout.rawLine)
    rewrites,    \* the updateCollapseState calls applied to rawLine so far
    calloutMap,  \* CalloutSyncService.calloutMap, one entry per key 'callout-<index>'
    host,        \* what the host offered to the last operation: editor, root, window, failing call
    log,         \* the console.error entries written by ErrorHandler.logError
    notices,     \* the Notice objects shown to the user
    completion,  \* how the last applyCalloutOperation call ended for its caller
    commands,    \* PluginSettings.commands: command id -> enabled flag, where set
    groupsEnabled, \* PluginSettings.groupsEnabled: scope -> flag
    registeredIds, \* CommandRegistry.registeredIds
    hostCommands,  \* the ids in the host's command list, in the order added
    awaiting,    \* the settings-panel onChange handlers suspended at 'await saveSettings()'
    toggled,     \* number of settings-panel toggles changed so far
    handlerRan,  \* TRUE when updateDataAttributes has run since the last text edit
    calls        \* the applyCalloutCollapseState calls made on the elements so far

\* the state of the plugin object, its settings, its registry and the host
pluginVars == <<calloutMap, host, log, notices, completion, commands, groupsEnabled,
                registeredIds, hostCommands, awaiting, toggled, handlerRan, calls>>

vars == <<lines, callouts, parsed, elements, prevLines, prevElements, lastOp,
          requests, opCount, firstLines, rawLine, rewrites, pluginVars>>

----------------------------------------------------------------------------
(* Bounds *)

MaxLines == 4       \* longest document
MaxElements == 3    \* most rendered callout elements
MaxRewrites == 2    \* longest chain of header rewrites
MaxOps == 2         \* operations per behaviour
MaxParseLines == 5  \* longest document given to the parser alone
MaxOperateLines == 3 \* longest document of the commands on text and elements
MaxCalls == 3       \* applyCalloutCollapseState calls per behaviour
MaxTagLines == 2    \* longest document of the position tags
MaxToggles == 2     \* settings-panel toggles changed per behaviour
MaxHostLines == 3   \* longest document of the commands on a failing host
MaxFailAt == 2      \* latest replaceRange call of an operation that the host fails
MaxSyncCallouts == 2 \* most markdown callouts given to the sync service
MaxSyncElements == 2 \* most rendered elements given to the sync service

----------------------------------------------------------------------------
(* JavaScript array and string helpers *)

At(s, i) == s[i + 1]

Slice(s, i) == SubSeq(s, i + 1, Len(s))

\* the entries of an array
Range(s) == {s[k] : k \in 1..Len(s)}

\* \s restricted to the whitespace characters the model's texts use
IsWs(c) == c \in {" ", "\t", "\n"}

\* [\w-] restricted to the model's alphabet
WordChars == {"a", "b", "c", "n", "x", "T", "U", "H", "_", "1"}

IsTypeChar(c) == c \in WordChars \cup {"-"}

\* first position q >= p (1-based) such that line[q] is not whitespace
SkipWs(line, p) ==
    CHOOSE q \in p..(Len(line) + 1) :
        /\ \A k \in p..(q - 1) : IsWs(line[k])
        /\ (q = Len(line) + 1 \/ ~IsWs(line[q]))

\* first position q >= p (1-based) such that line[q] is not in [\w-]
SkipType(line, p) ==
    CHOOSE q \in p..(Len(line) + 1) :
        /\ \A k \in p..(q - 1) : IsTypeChar(line[k])
        /\ (q = Len(line) + 1 \/ ~IsTypeChar(line[q]))

\* String.prototype.trim
Trim(s) ==
    IF \A k \in 1..Len(s) : IsWs(s[k]) THEN << >>
    ELSE LET a == CHOOSE i \in 1..Len(s) :
                     ~IsWs(s[i]) /\ \A k \in 1..(i - 1) : IsWs(s[k])
             b == CHOOSE j \in 1..Len(s) :
                     ~IsWs(s[j]) /\ \A k \in (j + 1)..Len(s) : IsWs(s[k])
         IN SubSeq(s, a, b)

StartsWith(s, c) == Len(s) > 0 /\ s[1] = c

\* String.prototype.includes
Includes(s, t) == \E i \in 0..(Len(s) - Len(t)) : SubSeq(s, i + 1, i + Len(t)) = t

\* String.prototype.substring(0, n)
Substring(s, n) == SubSeq(s, 1, IF Len(s) < n THEN Len(s) ELSE n)

\* Math.abs
Abs(n) == IF n < 0 THEN -n ELSE n

\* Math.min
Min(a, b) == IF a < b THEN a ELSE b

\* the least member of a non-empty set of numbers
Least(S) == CHOOSE k \in S : \A j \in S : k <= j

RECURSIVE JoinLines(_)
\* Array.prototype.join('\n')
JoinLines(ls) ==
    IF Len(ls) = 0 THEN << >>
    ELSE IF Len(ls) = 1 THEN ls[1]
    ELSE ls[1] \o <<"\n">> \o JoinLines(Tail(ls))

\* String.prototype.split('\n'): the pieces between consecutive newlines
SplitLines(text) ==
    LET breaks == {p \in 1..Len(text) : text[p] = "\n"}
        \* position of the k-th newline; 0 before the first piece, Len + 1 after the last
        break(k) == IF k = 0 THEN 0
                    ELSE IF k > Cardinality(breaks) THEN Len(text) + 1
                    ELSE CHOOSE p \in breaks : Cardinality({q \in breaks : q < p}) = k - 1
    IN [k \in 1..(Cardinality(breaks) + 1) |-> SubSeq(text, break(k - 1) + 1, break(k) - 1)]

\* editor.getValue()
getValue(buf) == JoinLines(buf)

----------------------------------------------------------------------------
\* CALLOUT_REGEX: ^> \s* \[! ([\w-]+) \] ([+-]?) \s* (. *), groups type,
\* collapse, title; every quantifier is greedy and what follows it always
\* matches, so the match is the one the longest runs give

NoMatch == [ok |-> FALSE]

\* ([+-]?) \s* (. *) after the "]" at position t: the record String.match returns
matchCollapse(line, p, t, m) ==
    [ok       |-> TRUE,
     type     |-> SubSeq(line, p + 2, t - 1),
     collapse |-> m,
     title    |-> SubSeq(line, SkipWs(line, t + 1 + Len(m)), Len(line)),
     input    |-> line]

\* ([\w-]+) \] with the run of type characters ending before position t
matchType(line, p, t) ==
    IF t = p + 2 \/ t > Len(line) \/ line[t] # "]" THEN NoMatch
    ELSE matchCollapse(line, p, t,
                       IF t + 1 <= Len(line) /\ line[t + 1] \in {"+", "-"}
                       THEN <<line[t + 1]>> ELSE << >>)

\* \[! at position p, where the whitespace after ">" ends
matchBracket(line, p) ==
    IF p + 1 > Len(line) \/ line[p] # "[" \/ line[p + 1] # "!" THEN NoMatch
    ELSE matchType(line, p, SkipType(line, p + 2))

CALLOUT_REGEX(line) ==
    IF ~StartsWith(line, ">") THEN NoMatch
    ELSE matchBracket(line, SkipWs(line, 2))

\* CONTINUATION_REGEX: ^> \s? (. *) as formatContent's map callback uses it:
\* the captured group, or the line itself when there is no match
CONTINUATION_REGEX(line) ==
    IF ~StartsWith(line, ">") THEN line
    ELSE IF Len(line) >= 2 /\ IsWs(line[2]) THEN SubSeq(line, 3, Len(line))
    ELSE SubSeq(line, 2, Len(line))

----------------------------------------------------------------------------
(* class Callout *)

\* Callout.fromMatch
fromMatch(match, startLineIndex) ==
    [type           |-> match.type,
     title          |-> Trim(match.title),
     isCollapsed    |-> (match.collapse = <<"-">>),
     content        |-> << >>,
     startLine      |-> startLineIndex,
     endLine        |-> startLineIndex,
     nestedCallouts |-> << >>,
     rawLine        |-> match.input]

\* Callout.containsLine
containsLine(callout, lineNumber) ==
    lineNumber >= callout.startLine /\ lineNumber <= callout.endLine

\* Callout.distanceToLine
distanceToLine(callout, lineNumber) ==
    IF containsLine(callout, lineNumber) THEN 0
    ELSE Min(Abs(callout.startLine - lineNumber), Abs(callout.endLine - lineNumber))

\* updateCollapseState with the two markers exchanged
updateCollapseStateSwapped(callout, newState) ==
    LET m == CALLOUT_REGEX(callout.rawLine) IN
    IF ~m.ok THEN callout.rawLine
    ELSE <<">", " ", "[", "!">> \o m.type \o <<"]">>
         \o <<IF newState THEN "+" ELSE "-">> \o <<" ">> \o m.title

\* Callout.updateCollapseState: String.replace with the regex and the
\* template `> [!${type}]${newState ? '-' : '+'} ${title}`; the regex is
\* anchored at ^ and its (.*) runs to the end of the line, so a match
\* replaces the whole line; without a match the line is returned as is
updateCollapseState(callout, newState) ==
    LET m == CALLOUT_REGEX(callout.rawLine) IN
    IF ~m.ok THEN callout.rawLine
    ELSE <<">", " ", "[", "!">> \o m.type \o <<"]">>
         \o <<IF newState THEN "-" ELSE "+">> \o <<" ">> \o m.title

----------------------------------------------------------------------------
(* class CalloutParser *)

Null == [isNull |-> TRUE]

\* CalloutParser.isCalloutStartLine
isCalloutStartLine(line) == CALLOUT_REGEX(line).ok

\* CalloutParser.isCalloutContinuationLine
isCalloutContinuationLine(line) ==
    StartsWith(Trim(line), ">") /\ ~isCalloutStartLine(line)

\* CalloutParser.formatContent
formatContent(contentLines) ==
    JoinLines([i \in 1..Len(contentLines) |-> CONTINUATION_REGEX(contentLines[i])])

RECURSIVE extractLoop(_, _, _)
\* the while loop of extractContent: the value of currentLine when the loop
\* is left, and whether it was left by the break
extractLoop(ls, currentLine, nesting) ==
    IF currentLine >= Len(ls) THEN [currentLine |-> currentLine, broke |-> FALSE]
    ELSE LET line == At(ls, currentLine) IN
         IF isCalloutStartLine(line)
         THEN extractLoop(ls, currentLine + 1, nesting + 1)
         ELSE IF isCalloutContinuationLine(line)
         THEN extractLoop(ls, currentLine + 1, nesting)
         ELSE IF nesting > 0
         THEN extractLoop(ls, currentLine + 1, nesting - 1)
         ELSE [currentLine |-> currentLine, broke |-> TRUE]

RECURSIVE parseCallout(_, _)
RECURSIVE extractContent(_, _)
RECURSIVE parseNestedCallouts(_, _)
RECURSIVE nestedLoop(_, _, _, _)

\* CalloutParser.parseCallout
parseCallout(ls, startLineIndex) ==
    LET match == CALLOUT_REGEX(At(ls, startLineIndex)) IN
    IF ~match.ok THEN Null
    ELSE LET callout == fromMatch(match, startLineIndex)
             ex == extractContent(ls, startLineIndex + 1)
         IN [callout EXCEPT !.endLine = ex.endLine,
                            !.content = formatContent(ex.contentLines),
                            !.nestedCallouts = ex.nestedCallouts]

\* what extractContent returns once its while loop has ended
extractResult(ls, startLine, loop) ==
    [contentLines   |-> SubSeq(ls, startLine + 1, loop.currentLine),
     endLine        |-> IF loop.currentLine >= Len(ls) THEN Len(ls) - 1
                        ELSE IF loop.broke THEN loop.currentLine - 1
                        ELSE startLine - 1,
     nestedCallouts |-> parseNestedCallouts(SubSeq(ls, startLine + 1, loop.currentLine),
                                            startLine - 1)]

\* CalloutParser.extractContent
extractContent(ls, startLine) ==
    extractResult(ls, startLine, extractLoop(ls, startLine, 0))

\* the while loop of parseNestedCallouts
nestedLoop(contentLines, parentStartLine, nestedStartLine, nestedCallouts) ==
    IF nestedStartLine >= Len(contentLines) THEN nestedCallouts
    ELSE IF isCalloutStartLine(At(contentLines, nestedStartLine))
    THEN LET nestedLines == Slice(contentLines, nestedStartLine)
             parsedNested == parseCallout(nestedLines, 0)
         IN IF parsedNested # Null
            THEN LET nested ==
                       [parsedNested EXCEPT
                          !.startLine = @ + parentStartLine + 1 + nestedStartLine,
                          !.endLine = @ + parentStartLine + 1 + nestedStartLine]
                 IN nestedLoop(contentLines, parentStartLine,
                               nestedStartLine + (nested.endLine - nested.startLine + 1),
                               Append(nestedCallouts, nested))
            ELSE nestedLoop(contentLines, parentStartLine, nestedStartLine + 1,
                            nestedCallouts)
    ELSE nestedLoop(contentLines, parentStartLine, nestedStartLine + 1, nestedCallouts)

\* CalloutParser.parseNestedCallouts
parseNestedCallouts(contentLines, parentStartLine) ==
    nestedLoop(contentLines, parentStartLine, 0, << >>)

RECURSIVE documentLoopNoSkip(_, _, _)
\* documentLoop without the skip to the end of the callout found
documentLoopNoSkip(ls, i, acc) ==
    IF i >= Len(ls) THEN acc
    ELSE IF isCalloutStartLine(At(ls, i))
    THEN LET callout == parseCallout(ls, i) IN
         IF callout # Null
         THEN documentLoopNoSkip(ls, i + 1, Append(acc, callout))
         ELSE documentLoopNoSkip(ls, i + 1, acc)
    ELSE documentLoopNoSkip(ls, i + 1, acc)

RECURSIVE documentLoop(_, _, _)
\* the for loop of parseDocument
documentLoop(ls, i, acc) ==
    IF i >= Len(ls) THEN acc
    ELSE IF isCalloutStartLine(At(ls, i))
    THEN LET callout == parseCallout(ls, i) IN
         IF callout # Null
         THEN documentLoop(ls, callout.endLine + 1, Append(acc, callout))
         ELSE documentLoop(ls, i + 1, acc)
    ELSE documentLoop(ls, i + 1, acc)

\* CalloutParser.parseDocument
parseDocument(content) == documentLoop(SplitLines(content), 0, << >>)

RECURSIVE findNestedCalloutWithLine(_, _)
RECURSIVE findNestedFrom(_, _, _)

\* the for loop of Callout.findNestedCalloutWithLine, from entry k (1-based)
findNestedFrom(nestedCallouts, lineNumber, k) ==
    IF k > Len(nestedCallouts) THEN Null
    ELSE LET nested == nestedCallouts[k] IN
         IF containsLine(nested, lineNumber)
         THEN LET deeperNested == findNestedCalloutWithLine(nested, lineNumber) IN
              IF deeperNested # Null THEN deeperNested ELSE nested
         ELSE findNestedFrom(nestedCallouts, lineNumber, k + 1)

\* Callout.findNestedCalloutWithLine
findNestedCalloutWithLine(callout, lineNumber) ==
    findNestedFrom(callout.nestedCallouts, lineNumber, 1)

\* CalloutParser.findCalloutContainingLine
findCalloutContainingLine(cs, lineNumber) ==
    IF \E k \in 1..Len(cs) : containsLine(cs[k], lineNumber)
    THEN LET k == CHOOSE j \in 1..Len(cs) :
                     /\ containsLine(cs[j], lineNumber)
                     /\ \A i \in 1..(j - 1) : ~containsLine(cs[i], lineNumber)
             inner == findNestedCalloutWithLine(cs[k], lineNumber)
         IN IF inner # Null THEN inner ELSE cs[k]
    ELSE Null

\* the two while loops and the clamping of CalloutParser.getCalloutsInSection
sectionBounds(ls, cursorLine) ==
    LET isHeading(i) == StartsWith(At(ls, i), "#")
        up == IF \E i \in 0..cursorLine : isHeading(i)
              THEN CHOOSE i \in 0..cursorLine :
                       isHeading(i) /\ \A j \in (i + 1)..cursorLine : ~isHeading(j)
              ELSE -1
        down == IF \E i \in cursorLine..(Len(ls) - 1) : isHeading(i)
                THEN CHOOSE i \in cursorLine..(Len(ls) - 1) :
                         isHeading(i) /\ \A j \in cursorLine..(i - 1) : ~isHeading(j)
                ELSE Len(ls)
    IN [sectionStart |-> IF up < 0 THEN 0 ELSE up,
        sectionEnd   |-> IF down >= Len(ls) THEN Len(ls) - 1 ELSE down]

\* CalloutParser.getCalloutsInSection
getCalloutsInSection(cs, ls, cursorLine) ==
    LET b == sectionBounds(ls, cursorLine) IN
    SelectSeq(cs, LAMBDA c : c.startLine >= b.sectionStart /\ c.endLine <= b.sectionEnd)

----------------------------------------------------------------------------
(* createCalloutOperation *)

ALL == "all"
CURRENT == "current"
SECTION == "section"
SCOPES == {ALL, CURRENT, SECTION}

TOGGLE == "toggle"
COLLAPSE == "collapse"
EXPAND == "expand"
TOGGLE_INDIVIDUAL == "toggle-individual"
MODES == {TOGGLE, COLLAPSE, EXPAND, TOGGLE_INDIVIDUAL}

\* createCalloutOperation(mode, callouts)(callout)
getNewState(mode, cs, callout) ==
    IF mode = COLLAPSE THEN TRUE
    ELSE IF mode = EXPAND THEN FALSE
    ELSE IF mode = TOGGLE_INDIVIDUAL THEN ~callout.isCollapsed
    ELSE LET collapsedCount == Len(SelectSeq(cs, LAMBDA c : c.isCollapsed)) IN
         2 * collapsedCount < Len(cs)

----------------------------------------------------------------------------
(* class CalloutMarkdownService, over the editor buffer buf *)

\* CalloutMarkdownService.detectAllCallouts
detectAllCallouts(buf) == parseDocument(getValue(buf))

\* CalloutMarkdownService.findCalloutAboveCursor
findCalloutAboveCursor(buf, cursorLine) ==
    LET ls == SplitLines(getValue(buf)) IN
    IF \E i \in 0..cursorLine : isCalloutStartLine(At(ls, i))
    THEN LET lineIndex == CHOOSE i \in 0..cursorLine :
                              /\ isCalloutStartLine(At(ls, i))
                              /\ \A j \in (i + 1)..cursorLine : ~isCalloutStartLine(At(ls, j))
         IN parseCallout(ls, lineIndex)
    ELSE Null

\* CalloutMarkdownService.getCalloutsInCurrentSection
getCalloutsInCurrentSection(buf, cursorLine) ==
    getCalloutsInSection(detectAllCallouts(buf), SplitLines(getValue(buf)), cursorLine)

\* editor.replaceRange(text, {line, ch: chFrom}, {line, ch: chTo})
replaceRange(buf, text, line, chFrom, chTo) ==
    LET old == At(buf, line)
        new == SubSeq(old, 1, chFrom) \o text \o SubSeq(old, chTo + 1, Len(old))
    IN SubSeq(buf, 1, line) \o SplitLines(new) \o SubSeq(buf, line + 2, Len(buf))

\* CalloutMarkdownService.updateCalloutCollapseState: the buffer it leaves
\* and the replaceRange request it issued, if any
updateCalloutCollapseState(buf, callout, newState) ==
    LET updatedLine == updateCollapseState(callout, newState)
        ls == SplitLines(getValue(buf))
        originalLine == At(ls, callout.startLine)
    IN IF updatedLine # originalLine
       THEN [buf  |-> replaceRange(buf, updatedLine, callout.startLine, 0, Len(originalLine)),
             reqs |-> <<[line |-> callout.startLine, text |-> updatedLine]>>]
       ELSE [buf |-> buf, reqs |-> << >>]

----------------------------------------------------------------------------
(* applyMarkdownOperation *)

\* a || b on callouts
firstNonNull(a, b) == IF a # Null THEN a ELSE b

\* if (callout) callouts = [callout]
singleton(callout) == IF callout # Null THEN <<callout>> ELSE << >>

\* the candidate callouts of the scope switch
scopeCallouts(buf, scope, cursorLine) ==
    IF scope = ALL THEN detectAllCallouts(buf)
    ELSE IF scope = CURRENT
    THEN singleton(firstNonNull(findCalloutContainingLine(detectAllCallouts(buf), cursorLine),
                                findCalloutAboveCursor(buf, cursorLine)))
    ELSE getCalloutsInCurrentSection(buf, cursorLine)

RECURSIVE sortAscending(_, _)
\* the sort with the comparison a.startLine - b.startLine
sortAscending(cs, acc) ==
    IF Len(cs) = 0 THEN acc
    ELSE LET c == Head(cs)
             n == Cardinality({k \in 1..Len(acc) : acc[k].startLine <= c.startLine})
         IN sortAscending(Tail(cs),
                          SubSeq(acc, 1, n) \o <<c>> \o SubSeq(acc, n + 1, Len(acc)))

RECURSIVE sortDescending(_, _)
\* [...callouts].sort((a, b) => b.startLine - a.startLine), a stable sort:
\* each entry goes after the entries already placed whose startLine is not smaller
sortDescending(cs, acc) ==
    IF Len(cs) = 0 THEN acc
    ELSE LET c == Head(cs)
             n == Cardinality({k \in 1..Len(acc) : acc[k].startLine >= c.startLine})
         IN sortDescending(Tail(cs),
                           SubSeq(acc, 1, n) \o <<c>> \o SubSeq(acc, n + 1, Len(acc)))

RECURSIVE updateEach(_, _, _, _, _)
\* sortedCallouts.forEach(callout => updateCalloutCollapseState(callout, getNewState(callout)))
updateEach(buf, sortedCallouts, mode, cs, reqs) ==
    IF Len(sortedCallouts) = 0 THEN [buf |-> buf, reqs |-> reqs]
    ELSE LET callout == Head(sortedCallouts)
             r == updateCalloutCollapseState(buf, callout, getNewState(mode, cs, callout))
         IN updateEach(r.buf, Tail(sortedCallouts), mode, cs, reqs \o r.reqs)

\* applyMarkdownOperation after the scope switch, on the candidates cs
updateCallouts(buf, cs, mode) ==
    IF Len(cs) = 0 THEN [buf |-> buf, reqs |-> << >>]
    ELSE updateEach(buf, sortDescending(cs, << >>), mode, cs, << >>)

\* applyMarkdownOperation: the buffer it leaves and the requests it issued
applyMarkdownOperation(buf, scope, mode, cursorLine) ==
    updateCallouts(buf, scopeCallouts(buf, scope, cursorLine), mode)

----------------------------------------------------------------------------
(* class DOMCalloutService, over the rendered elements els *)

\* a rendered '.callout' element: the is-collapsed class of the element, the
\* is-collapsed class of its '.callout-fold' icon, and whether the style of
\* its '.callout-content' is 'display: none;'
Element(collapsed) ==
    [isCollapsed |-> collapsed, foldIsCollapsed |-> collapsed, contentHidden |-> collapsed]

\* applyCalloutCollapseState without the style of the content element
applyCalloutCollapseStateClassOnly(element, collapsed) ==
    IF collapsed # element.isCollapsed
    THEN [element EXCEPT !.isCollapsed = collapsed,
                         !.foldIsCollapsed = collapsed]
    ELSE element

\* DOMCalloutService.applyCalloutCollapseState
applyCalloutCollapseState(element, collapsed) ==
    IF collapsed # element.isCollapsed
    THEN [element EXCEPT !.isCollapsed = collapsed,
                         !.foldIsCollapsed = collapsed,
                         !.contentHidden = collapsed]
    ELSE element

\* DOMCalloutService.applyToAllCallouts
applyToAllCallouts(els, collapsed) ==
    [k \in 1..Len(els) |-> applyCalloutCollapseState(els[k], collapsed)]

\* applyVisualOperation, case SCOPES.ALL
applyVisualOperationAll(els, mode) ==
    IF Len(els) = 0 THEN els
    ELSE IF mode = COLLAPSE THEN applyToAllCallouts(els, TRUE)
    ELSE IF mode = EXPAND THEN applyToAllCallouts(els, FALSE)
    ELSE IF mode = TOGGLE_INDIVIDUAL
    THEN [k \in 1..Len(els) |-> applyCalloutCollapseState(els[k], ~els[k].isCollapsed)]
    ELSE applyToAllCallouts(els, ~els[1].isCollapsed)

\* what Array.prototype.find returns when no entry passes
Undefined == [isUndefined |-> TRUE]

\* a rendered '.callout' element with what the matching reads: the trimmed
\* text of its '.callout-title-inner' and of its '.callout-content', the
\* type of its 'callout-title-<type>' class, whether it lies inside another
\* '.callout' element, and dataset.startLine / dataset.endLine (tagged is
\* FALSE while dataset.startLine is undefined).  dataset.type and
\* dataset.index are written by addDataAttributes and never read.
RenderedElement(callout, nested) ==
    [isCollapsed     |-> callout.isCollapsed,
     foldIsCollapsed |-> callout.isCollapsed,
     contentHidden   |-> callout.isCollapsed,
     title           |-> callout.title,
     type            |-> callout.type,
     content         |-> Trim(callout.content),
     nested          |-> nested,
     tagged          |-> FALSE,
     startLine       |-> 0,
     endLine         |-> 0]

RECURSIVE renderCallouts(_, _)
\* root.querySelectorAll('.callout') on the host's rendering of the callouts
\* cs: one element per callout at any depth, in document order
renderCallouts(cs, nested) ==
    IF Len(cs) = 0 THEN << >>
    ELSE <<RenderedElement(Head(cs), nested)>>
         \o renderCallouts(Head(cs).nestedCallouts, TRUE)
         \o renderCallouts(Tail(cs), nested)

\* the callback of callouts.find in DOMCalloutService.findMatchingCallout;
\* every content of the model is shorter than 50 characters
matchesCallout(element, callout) ==
    /\ callout.title = element.title
    /\ callout.type = element.type
    /\ (Includes(callout.content, element.content)
            \/ Includes(element.content, callout.content))

\* DOMCalloutService.findMatchingCallout on an element that has its title
\* and content elements: the first matching callout, or undefined
findMatchingCallout(element, cs) ==
    IF \E k \in 1..Len(cs) : matchesCallout(element, cs[k])
    THEN cs[Least({k \in 1..Len(cs) : matchesCallout(element, cs[k])})]
    ELSE Undefined

\* the element with the dataset entries addDataAttributes gives it for callout
withDataAttributes(element, callout) ==
    IF callout # Undefined /\ callout # Null
    THEN [element EXCEPT !.tagged = TRUE,
                         !.startLine = callout.startLine,
                         !.endLine = callout.endLine]
    ELSE element

\* DOMCalloutService.addDataAttributes
addDataAttributes(els, cs) ==
    IF Len(els) = 0 \/ Len(cs) = 0 THEN els
    ELSE [k \in 1..Len(els) |-> withDataAttributes(els[k], findMatchingCallout(els[k], cs))]

\* the distance the sort callback of getClosestCalloutToCursor computes
elementDistance(element, cursorLine) ==
    Min(Abs(element.startLine - cursorLine), Abs(element.endLine - cursorLine))

\* getClosestCalloutToCursor on the elements with data attributes, whose
\* indexes are tagged: the first one holding the cursor line, else the first
\* of those at the least distance (Array.prototype.sort is stable)
closestTagged(els, tagged, cursorLine) ==
    IF \E k \in tagged : cursorLine >= els[k].startLine /\ cursorLine <= els[k].endLine
    THEN Least({k \in tagged :
                   cursorLine >= els[k].startLine /\ cursorLine <= els[k].endLine})
    ELSE Least({k \in tagged :
                   \A j \in tagged : elementDistance(els[k], cursorLine)
                                         <= elementDistance(els[j], cursorLine)})

\* callouts.find(c => c.containsLine(cursorLine)) || callouts.sort(...)[0]
\* on a non-empty list
targetCallout(cs, cursorLine) ==
    IF \E k \in 1..Len(cs) : containsLine(cs[k], cursorLine)
    THEN cs[Least({k \in 1..Len(cs) : containsLine(cs[k], cursorLine)})]
    ELSE cs[Least({k \in 1..Len(cs) :
                      \A j \in 1..Len(cs) : distanceToLine(cs[k], cursorLine)
                                                <= distanceToLine(cs[j], cursorLine)})]

\* calloutElements.find(element => findMatchingCallout(element, [target]) !== null):
\* the index of the element found, 0 if there is none
firstNotNull(els, target) ==
    IF \E k \in 1..Len(els) : findMatchingCallout(els[k], <<target>>) # Null
    THEN Least({k \in 1..Len(els) : findMatchingCallout(els[k], <<target>>) # Null})
    ELSE 0

\* the first line that includes the first 20 characters of the content
firstLineWith(ls, content) ==
    Least({i \in 0..(Len(ls) - 1) : Includes(At(ls, i), Substring(content, 20))})

\* the content-matching fallback of getClosestCalloutToCursor: among the
\* elements with content found on some line, the first at the least distance
closestByContent(els, ls, cursorLine) ==
    IF \E k \in 1..Len(els) :
           /\ Len(els[k].content) > 0
           /\ \E i \in 0..(Len(ls) - 1) : Includes(At(ls, i), Substring(els[k].content, 20))
    THEN Least({k \in 1..Len(els) :
             /\ Len(els[k].content) > 0
             /\ \E i \in 0..(Len(ls) - 1) : Includes(At(ls, i), Substring(els[k].content, 20))
             /\ \A j \in 1..Len(els) :
                    (/\ Len(els[j].content) > 0
                     /\ \E i \in 0..(Len(ls) - 1) :
                            Includes(At(ls, i), Substring(els[j].content, 20)))
                    => Abs(firstLineWith(ls, els[k].content) - cursorLine)
                           <= Abs(firstLineWith(ls, els[j].content) - cursorLine)})
    ELSE 0

\* DOMCalloutService.getClosestCalloutToCursor: the index of the element it
\* returns, 0 for null or undefined
domGetClosestCalloutToCursor(els, cursorLine, ls, cs) ==
    IF Len(els) = 0 THEN 0
    ELSE IF \E k \in 1..Len(els) : els[k].tagged
    THEN closestTagged(els, {k \in 1..Len(els) : els[k].tagged}, cursorLine)
    ELSE IF Len(cs) > 0
    THEN firstNotNull(els, targetCallout(cs, cursorLine))
    ELSE closestByContent(els, ls, cursorLine)

\* DOMCalloutService.getCalloutsInCurrentSection with the section bounds b:
\* the indexes of the elements it returns.  The callers always pass the
\* callouts, so its content-matching fallback is never reached.
elementsInSection(els, cs, b) ==
    IF \E k \in 1..Len(els) : els[k].tagged
    THEN {k \in 1..Len(els) :
             /\ els[k].tagged
             /\ els[k].startLine >= b.sectionStart
             /\ els[k].endLine <= b.sectionEnd}
    ELSE {k \in 1..Len(els) :
             \E j \in 1..Len(cs) :
                 /\ cs[j].startLine >= b.sectionStart
                 /\ cs[j].endLine <= b.sectionEnd
                 /\ findMatchingCallout(els[k], <<cs[j]>>) # Null}

\* DOMCalloutService.getCalloutsInCurrentSection
domGetCalloutsInCurrentSection(els, cursorLine, ls, cs) ==
    elementsInSection(els, cs, sectionBounds(ls, cursorLine))

\* applyVisualOperation, case SCOPES.CURRENT, with the element found at index target
applyVisualOperationCurrent(els, mode, target) ==
    IF target = 0 THEN els
    ELSE [els EXCEPT ![target] =
             applyCalloutCollapseState(@, IF mode = COLLAPSE THEN TRUE
                                          ELSE IF mode = EXPAND THEN FALSE
                                          ELSE ~@.isCollapsed)]

\* applyVisualOperation, case SCOPES.SECTION, with the elements found at the indexes matching
applyVisualOperationSection(els, mode, matching) ==
    IF matching = {} THEN els
    ELSE [k \in 1..Len(els) |->
             IF k \notin matching THEN els[k]
             ELSE applyCalloutCollapseState(
                      els[k],
                      IF mode = COLLAPSE THEN TRUE
                      ELSE IF mode = EXPAND THEN FALSE
                      ELSE IF mode = TOGGLE_INDIVIDUAL THEN ~els[k].isCollapsed
                      ELSE 2 * Cardinality({j \in matching : els[j].isCollapsed})
                               < Cardinality(matching))]

\* applyVisualOperation: the elements it leaves
applyVisualOperation(els, buf, scope, mode, cursorLine) ==
    IF scope = ALL THEN applyVisualOperationAll(els, mode)
    ELSE IF scope = CURRENT
    THEN applyVisualOperationCurrent(
             els, mode,
             domGetClosestCalloutToCursor(els, cursorLine, SplitLines(getValue(buf)),
                                          detectAllCallouts(buf)))
    ELSE IF scope = SECTION
    THEN applyVisualOperationSection(
             els, mode,
             domGetCalloutsInCurrentSection(els, cursorLine, SplitLines(getValue(buf)),
                                            detectAllCallouts(buf)))
    ELSE els

\* the outcome of a markdown operation r next to the elements, which it leaves alone
markdownOutcome(r, els) == [buf |-> r.buf, reqs |-> r.reqs, els |-> els]

\* applyCalloutOperation with both branches taking the markdown one
applyCalloutOperationAlwaysMarkdown(buf, els, scope, mode, modifyMarkdown, cursorLine) ==
    markdownOutcome(applyMarkdownOperation(buf, scope, mode, cursorLine),
                    IF modifyMarkdown THEN els
                    ELSE applyVisualOperation(els, buf, scope, mode, cursorLine))

\* applyCalloutOperation with the services available: the buffer, the
\* replaceRange requests and the elements it leaves
applyCalloutOperation(buf, els, scope, mode, modifyMarkdown, cursorLine) ==
    IF modifyMarkdown
    THEN markdownOutcome(applyMarkdownOperation(buf, scope, mode, cursorLine), els)
    ELSE [buf  |-> buf,
          reqs |-> << >>,
          els  |-> applyVisualOperation(els, buf, scope, mode, cursorLine)]

----------------------------------------------------------------------------
(* class CalloutSyncService (src/unnamed/part_002) *)

\* a callout as the sync service reads it, on the markdown side (a
\* CalloutInfo of detectAllCallouts) and on the DOM side
\* (DOMCalloutService.getCalloutInfoFromElement)
CalloutInfo(title, type, isCollapsed) ==
    [title |-> title, type |-> type, isCollapsed |-> isCollapsed]

\* markdownCallouts.find(test), with the indexes passing the test
findPassing(markdownCallouts, passing) ==
    IF passing = {} THEN Undefined ELSE markdownCallouts[Least(passing)]

\* the second, third and fourth try of findMatchingMarkdownCallout
findLooser(markdownCallouts, title, type, typed, titled) ==
    IF typed # {} THEN findPassing(markdownCallouts, typed)
    ELSE IF titled # {} THEN findPassing(markdownCallouts, titled)
    ELSE findPassing(markdownCallouts,
                     {k \in 1..Len(markdownCallouts) :
                         \/ Includes(title, markdownCallouts[k].title)
                         \/ Includes(markdownCallouts[k].title, title)})

\* findMatchingMarkdownCallout with the title-only try made first
findMatchingMarkdownCalloutTitleFirst(markdownCallouts, title, type, isCollapsed) ==
    findLooser(markdownCallouts, title, type, {},
               {k \in 1..Len(markdownCallouts) : markdownCallouts[k].title = title})

\* CalloutSyncService.findMatchingMarkdownCallout
findMatchingMarkdownCallout(markdownCallouts, title, type, isCollapsed) ==
    IF \E k \in 1..Len(markdownCallouts) :
           /\ markdownCallouts[k].title = title
           /\ markdownCallouts[k].type = type
           /\ markdownCallouts[k].isCollapsed = isCollapsed
    THEN findPassing(markdownCallouts,
                     {k \in 1..Len(markdownCallouts) :
                         /\ markdownCallouts[k].title = title
                         /\ markdownCallouts[k].type = type
                         /\ markdownCallouts[k].isCollapsed = isCollapsed})
    ELSE findLooser(markdownCallouts, title, type,
                    {k \in 1..Len(markdownCallouts) :
                        /\ markdownCallouts[k].title = title
                        /\ markdownCallouts[k].type = type},
                    {k \in 1..Len(markdownCallouts) : markdownCallouts[k].title = title})

\* Map.prototype.set on a map kept as its entries in insertion order
mapSet(map, key, value) ==
    IF \E k \in 1..Len(map) : map[k].key = key
    THEN [k \in 1..Len(map) |->
             IF map[k].key = key THEN [key |-> key, value |-> value] ELSE map[k]]
    ELSE Append(map, [key |-> key, value |-> value])

RECURSIVE refreshLoop(_, _, _, _)
\* domCallouts.forEach((domElement, index) => ...) of refreshCallouts, from
\* index on; an element is named by its index
refreshLoop(markdownCallouts, domCallouts, index, map) ==
    IF index >= Len(domCallouts) THEN map
    ELSE refreshLoop(
             markdownCallouts, domCallouts, index + 1,
             mapSet(map, index,
                    [domElement       |-> index,
                     title            |-> At(domCallouts, index).title,
                     type             |-> At(domCallouts, index).type,
                     isCollapsed      |-> At(domCallouts, index).isCollapsed,
                     markdownCallout  |->
                         findMatchingMarkdownCallout(
                             markdownCallouts, At(domCallouts, index).title,
                             At(domCallouts, index).type,
                             At(domCallouts, index).isCollapsed)]))

\* CalloutSyncService.refreshCallouts: the calloutMap it leaves
refreshCallouts(markdownCallouts, domCallouts) ==
    refreshLoop(markdownCallouts, domCallouts, 0, << >>)

----------------------------------------------------------------------------
(* class PluginSettings, class CommandRegistry and the host's command list *)

\* the command table of onload: id and scope of each command
CommandTable ==
    <<[id |-> "toggle-current-markdown",   scope |-> CURRENT],
      [id |-> "collapse-current-markdown", scope |-> CURRENT],
      [id |-> "expand-current-markdown",   scope |-> CURRENT],
      [id |-> "toggle-section-markdown",   scope |-> SECTION],
      [id |-> "collapse-section-markdown", scope |-> SECTION],
      [id |-> "expand-section-markdown",   scope |-> SECTION],
      [id |-> "flip-section-markdown",     scope |-> SECTION],
      [id |-> "toggle-all-markdown",       scope |-> ALL],
      [id |-> "collapse-all-markdown",     scope |-> ALL],
      [id |-> "expand-all-markdown",       scope |-> ALL],
      [id |-> "flip-all-markdown",         scope |-> ALL],
      [id |-> "toggle-section-visual",     scope |-> SECTION],
      [id |-> "collapse-section-visual",   scope |-> SECTION],
      [id |-> "expand-section-visual",     scope |-> SECTION],
      [id |-> "flip-section-visual",       scope |-> SECTION],
      [id |-> "toggle-all-visual",         scope |-> ALL],
      [id |-> "collapse-all-visual",       scope |-> ALL],
      [id |-> "expand-all-visual",         scope |-> ALL],
      [id |-> "flip-all-visual",           scope |-> ALL]>>

\* PluginSettings.isCommandEnabled
isCommandEnabled(cmds, commandId) ==
    ~(commandId \in DOMAIN cmds /\ cmds[commandId] = FALSE)

\* PluginSettings.setCommandEnabled: the commands object it leaves
setCommandEnabled(cmds, commandId, enabled) ==
    [id \in DOMAIN cmds \cup {commandId} |-> IF id = commandId THEN enabled ELSE cmds[id]]

RECURSIVE setGroupLoop(_, _, _, _)
\* commands.forEach(cmd => ...) of setGroupEnabled
setGroupLoop(cmds, group, enabled, cmdList) ==
    IF Len(cmdList) = 0 THEN cmds
    ELSE setGroupLoop(IF Head(cmdList).scope = group
                      THEN setCommandEnabled(cmds, Head(cmdList).id, enabled)
                      ELSE cmds,
                      group, enabled, Tail(cmdList))

\* PluginSettings.setGroupEnabled: the commands and groupsEnabled it leaves
setGroupEnabled(cmds, groups, group, enabled, cmdList) ==
    [commands      |-> setGroupLoop(cmds, group, enabled, cmdList),
     groupsEnabled |-> [groups EXCEPT ![group] = enabled]]

\* CommandRegistry.getCommandsByScope / groupCommandsByScope()[scope]
getCommandsByScope(scope) == SelectSeq(CommandTable, LAMBDA cmd : cmd.scope = scope)

\* `callout-control.${command.id}`
fullId(id) == <<"callout-control", id>>

\* plugin.addCommand and plugin.removeCommand on the host's command list
addCommand(hostCmds, id) == Append(hostCmds, id)
removeCommand(hostCmds, id) == SelectSeq(hostCmds, LAMBDA c : c # id)

RECURSIVE unregisterLoop(_, _)
\* this.registeredIds.forEach(id => this.plugin.removeCommand(id))
unregisterLoop(regIds, hostCmds) ==
    IF Len(regIds) = 0 THEN hostCmds
    ELSE unregisterLoop(Tail(regIds), removeCommand(hostCmds, Head(regIds)))

\* CommandRegistry.unregisterAllCommands
unregisterAllCommands(regIds, hostCmds) ==
    [registeredIds |-> << >>, hostCommands |-> unregisterLoop(regIds, hostCmds)]

RECURSIVE registerLoop(_, _, _, _)
\* this.commands.forEach(command => ...) of registerCommands
registerLoop(cmds, cmdList, regIds, hostCmds) ==
    IF Len(cmdList) = 0 THEN [registeredIds |-> regIds, hostCommands |-> hostCmds]
    ELSE IF isCommandEnabled(cmds, Head(cmdList).id)
    THEN registerLoop(cmds, Tail(cmdList), Append(regIds, fullId(Head(cmdList).id)),
                      addCommand(hostCmds, fullId(Head(cmdList).id)))
    ELSE registerLoop(cmds, Tail(cmdList), regIds, hostCmds)

\* registerCommands without the call of unregisterAllCommands
registerCommandsKeeping(cmds, regIds, hostCmds) ==
    registerLoop(cmds, CommandTable, regIds, hostCmds)

\* CommandRegistry.registerCommands: the registeredIds and the host's list it leaves
registerCommands(cmds, regIds, hostCmds) ==
    registerLoop(cmds, CommandTable,
                 unregisterAllCommands(regIds, hostCmds).registeredIds,
                 unregisterAllCommands(regIds, hostCmds).hostCommands)

----------------------------------------------------------------------------
(* The plugin object after its constructor *)

\* an object without properties
EmptyObject == [k \in {} |-> TRUE]

\* the host conditions of a state in which no operation has run
NoHost == [editor |-> TRUE, root |-> TRUE, activeWindow |-> TRUE, failAt |-> 0]

\* the constructors of CalloutControlPlugin, PluginSettings and
\* CommandRegistry, with nothing logged, shown or registered yet
InitPlugin ==
    /\ calloutMap = << >>
    /\ host = NoHost
    /\ log = << >>
    /\ notices = << >>
    /\ completion = "none"
    /\ commands = EmptyObject
    /\ groupsEnabled = [all |-> TRUE, current |-> TRUE, section |-> TRUE]
    /\ registeredIds = << >>
    /\ hostCommands = << >>
    /\ awaiting = 0
    /\ toggled = 0
    /\ handlerRan = FALSE
    /\ calls = << >>

----------------------------------------------------------------------------
(* applyCalloutOperation on a host that may lack the editor or the root and *)
(* may throw from a replaceRange call                                       *)

\* ErrorHandler.handleError on the log and the notices: logError, then a
\* Notice when window.activeWindow is set
handleError(lg, ns, message, userMessage, activeWindow) ==
    [log     |-> Append(lg, message),
     notices |-> IF activeWindow THEN Append(ns, userMessage) ELSE ns]

\* getServices: null without editor or root, else the services
getServices(h) ==
    IF ~h.editor \/ ~h.root THEN Null
    ELSE [editor |-> TRUE, markdownService |-> TRUE, domService |-> TRUE]

\* one updateCalloutCollapseState call r made when reqs were issued before
\* it, on a host that throws from its failAt-th replaceRange call
failingAt(r, reqs, failAt) == r.reqs # << >> /\ Len(reqs) + 1 = failAt

RECURSIVE updateEachOnHost(_, _, _, _, _, _)
\* the forEach of applyMarkdownOperation on that host: the exception leaves
\* the loop, the buffer keeps what the calls before it wrote
updateEachOnHost(buf, sortedCallouts, mode, cs, reqs, failAt) ==
    IF Len(sortedCallouts) = 0 THEN [buf |-> buf, reqs |-> reqs, threw |-> FALSE]
    ELSE \* the call for the first callout left
         LET r == updateCalloutCollapseState(buf, Head(sortedCallouts),
                                             getNewState(mode, cs, Head(sortedCallouts)))
         IN IF failingAt(r, reqs, failAt)
            THEN [buf |-> buf, reqs |-> reqs \o r.reqs, threw |-> TRUE]
            ELSE updateEachOnHost(r.buf, Tail(sortedCallouts), mode, cs,
                                  reqs \o r.reqs, failAt)

\* applyMarkdownOperation on that host, on the candidates cs
updateCalloutsOnHost(buf, cs, mode, failAt) ==
    IF Len(cs) = 0 THEN [buf |-> buf, reqs |-> << >>, threw |-> FALSE]
    ELSE updateEachOnHost(buf, sortDescending(cs, << >>), mode, cs, << >>, failAt)

\* the body of the try block of applyCalloutOperation with the services
\* present: what it leaves and whether an exception left it
tryOperation(buf, els, scope, mode, modifyMarkdown, cursorLine, failAt) ==
    IF modifyMarkdown
    THEN [md  |-> updateCalloutsOnHost(buf, scopeCallouts(buf, scope, cursorLine),
                                       mode, failAt),
          els |-> els]
    ELSE [md  |-> [buf |-> buf, reqs |-> << >>, threw |-> FALSE],
          els |-> applyVisualOperation(els, buf, scope, mode, cursorLine)]

\* the outcome of an applyCalloutOperation call for its caller
hostOutcome(buf, reqs, els, lg, ns, ending) ==
    [buf |-> buf, reqs |-> reqs, els |-> els, log |-> lg, notices |-> ns,
     completion |-> ending]

\* the end of the try block without the catch clause
uncaught(t, lg, ns, activeWindow) ==
    hostOutcome(t.md.buf, t.md.reqs, t.els, lg, ns,
                IF t.md.threw THEN "threw" ELSE "returned")

\* the catch clause of applyCalloutOperation on the end t of the try block:
\* the outcome of the call
caught(t, lg, ns, activeWindow) ==
    IF t.md.threw
    THEN hostOutcome(t.md.buf, t.md.reqs, t.els,
                     handleError(lg, ns, "Failed to apply operation",
                                 "Please try again or try a different command.",
                                 activeWindow).log,
                     handleError(lg, ns, "Failed to apply operation",
                                 "Please try again or try a different command.",
                                 activeWindow).notices,
                     "returned")
    ELSE hostOutcome(t.md.buf, t.md.reqs, t.els, lg, ns, "returned")

\* applyCalloutOperation on the host conditions h
applyCalloutOperationOnHost(buf, els, scope, mode, modifyMarkdown, cursorLine, h, lg, ns) ==
    IF getServices(h) = Null
    THEN hostOutcome(buf, << >>, els, lg, ns, "returned")
    ELSE caught(tryOperation(buf, els, scope, mode, modifyMarkdown, cursorLine, h.failAt),
                lg, ns, h.activeWindow)

----------------------------------------------------------------------------
(* Documents and headers the model starts from *)

\* "> [!a] T": a header without marker
HeaderA == <<">", " ", "[", "!", "a", "]", " ", "T">>
\* "> [!b]- U": a collapsed header
HeaderB == <<">", " ", "[", "!", "b", "]", "-", " ", "U">>
\* "> x": a quoted line
Quoted == <<">", " ", "x">>
\* "": an empty line
Empty == << >>
\* "# H": a heading
Heading == <<"#", " ", "H">>

\* "> [!a]+ T": an expanded header with its marker
HeaderPlus == <<">", " ", "[", "!", "a", "]", "+", " ", "T">>
\* "## S": a heading one level below Heading
SubHeading == <<"#", "#", " ", "S">>

LinePool == {HeaderA, HeaderB, Quoted, Empty, Heading}

Docs == UNION {[1..n -> LinePool] : n \in 1..MaxLines}

SectionLinePool == LinePool \cup {SubHeading}

SectionDocs == UNION {[1..n -> SectionLinePool] : n \in 1..MaxLines}

OperateDocs == UNION {[1..n -> LinePool] : n \in 1..MaxOperateLines}

\* two adjacent headers and the empty line after the final newline
AdjacentScenario == <<HeaderPlus, HeaderPlus, Empty>>

\* an outer header, an inner header, two quoted lines and the empty line
\* after the final newline
NestedScenario == <<HeaderPlus, HeaderB, Quoted, Quoted, Empty>>

ParseDocs ==
    UNION {[1..n -> LinePool] : n \in 1..MaxParseLines}
        \cup {AdjacentScenario, NestedScenario}

\* legal header lines: '>', spacing, '[!type]', optional marker, spacing, title
HeaderSpacings == {<< >>, <<" ">>, <<" ", " ">>, <<"\t">>}
HeaderTypes == {<<"a">>, <<"b", "-", "c">>}
HeaderMarkers == {<< >>, <<"+">>, <<"-">>}
HeaderTitles == {<< >>, <<"T">>, <<"T", " ", "x">>}

MakeHeader(s1, type, marker, s2, title) ==
    <<">">> \o s1 \o <<"[", "!">> \o type \o <<"]">> \o marker \o s2 \o title

LegalHeaders ==
    {MakeHeader(s1, ty, m, s2, ti) :
        s1 \in HeaderSpacings, ty \in HeaderTypes, m \in HeaderMarkers,
        s2 \in HeaderSpacings, ti \in HeaderTitles}

\* what detectAllCallouts and getCalloutInfoFromElement give the sync
\* service: titles that are equal, contained in one another or unrelated
\* ("T x", "T", "U", and "" for an element without title text)
MarkdownInfos ==
    {CalloutInfo(title, type, isCollapsed) :
        title \in {<<"T">>, <<"U">>}, type \in {<<"a">>, <<"b">>}, isCollapsed \in BOOLEAN}

DomInfos ==
    {CalloutInfo(title, <<"a">>, isCollapsed) :
        title \in {<<"T">>, <<"T", " ", "x">>, << >>}, isCollapsed \in BOOLEAN}

MarkdownInfoSeqs == UNION {[1..n -> MarkdownInfos] : n \in 0..MaxSyncCallouts}

DomInfoSeqs == UNION {[1..n -> DomInfos] : n \in 0..MaxSyncElements}

HostLinePool == {HeaderA, HeaderB, Empty}

HostDocs == UNION {[1..n -> HostLinePool] : n \in 1..MaxHostLines}

\* what the host offers to an operation: the active editor and its
\* container, window.activeWindow, and the replaceRange call that throws
\* (0 for none); without editor or root no replaceRange call is made
HostConditions ==
    {[editor |-> e, root |-> r, activeWindow |-> w, failAt |-> f] :
        e \in BOOLEAN, r \in BOOLEAN, w \in BOOLEAN, f \in 0..MaxFailAt}
        \ {h \in [editor : BOOLEAN, root : BOOLEAN, activeWindow : BOOLEAN,
                   failAt : 0..MaxFailAt] : (~h.editor \/ ~h.root) /\ h.failAt # 0}

\* settings.commands after loadSettings: nothing stored, one command stored
\* as disabled, or a whole group stored as disabled and one command as enabled
LoadedCommands ==
    {EmptyObject,
     setCommandEnabled(EmptyObject, "flip-all-visual", FALSE),
     setCommandEnabled(setGroupLoop(EmptyObject, CURRENT, FALSE, CommandTable),
                       "toggle-all-markdown", TRUE)}

TagLinePool == {HeaderA, HeaderB, Quoted, Empty}

TagDocs == UNION {[1..n -> TagLinePool] : n \in 1..MaxTagLines}

ElementSeqs == UNION {[1..n -> {Element(TRUE), Element(FALSE)}] : n \in 0..MaxElements}

NoOp == [scope |-> "none", mode |-> "none", modifyMarkdown |-> FALSE, cursor |-> 0]

----------------------------------------------------------------------------
(* The markdown commands: applyCalloutOperation(scope, mode, true) *)

Init ==
    /\ InitPlugin
    /\ lines \in Docs
    /\ callouts = << >>
    /\ parsed = FALSE
    /\ elements = << >>
    /\ prevLines = lines
    /\ prevElements = << >>
    /\ lastOp = NoOp
    /\ requests = << >>
    /\ opCount = 0
    /\ firstLines = lines
    /\ rawLine = << >>
    /\ rewrites = << >>

\* applyCalloutOperation with modifyMarkdown = true and the cursor on cursorLine
MarkdownOperation(scope, mode, cursorLine) ==
    /\ \E r \in {applyMarkdownOperation(lines, scope, mode, cursorLine)} :
           /\ lines' = r.buf
           /\ requests' = r.reqs
    /\ prevLines' = lines
    /\ lastOp' = [scope |-> scope, mode |-> mode, modifyMarkdown |-> TRUE,
                  cursor |-> cursorLine]
    /\ opCount' = opCount + 1
    /\ UNCHANGED <<callouts, parsed, elements, prevElements, firstLines, rawLine, rewrites,
                   pluginVars>>

\* editor.getCursor().line; scope ALL never reads it, so one value stands for all
CursorLines(scope) == IF scope = ALL THEN {0} ELSE 0..(Len(lines) - 1)

\* the user runs a markdown command
InvokeMarkdownCommand ==
    /\ opCount = 0
    /\ \E scope \in SCOPES, mode \in MODES :
           \E cursorLine \in CursorLines(scope) :
               MarkdownOperation(scope, mode, cursorLine)

\* the user runs the same command again without moving the cursor
RepeatMarkdownCommand ==
    /\ opCount > 0
    /\ opCount < MaxOps
    /\ lastOp.modifyMarkdown
    /\ MarkdownOperation(lastOp.scope, lastOp.mode, lastOp.cursor)

Next == InvokeMarkdownCommand \/ RepeatMarkdownCommand

Spec == Init /\ [][Next]_vars

----------------------------------------------------------------------------
(* The parser alone: parseDocument on every document *)

InitParse ==
    /\ InitPlugin
    /\ lines \in ParseDocs
    /\ callouts = << >>
    /\ parsed = FALSE
    /\ elements = << >>
    /\ prevLines = lines
    /\ prevElements = << >>
    /\ lastOp = NoOp
    /\ requests = << >>
    /\ opCount = 0
    /\ firstLines = lines
    /\ rawLine = << >>
    /\ rewrites = << >>

\* CalloutMarkdownService.detectAllCallouts on the buffer
DetectAllCallouts ==
    /\ ~parsed
    /\ callouts' = detectAllCallouts(lines)
    /\ parsed' = TRUE
    /\ UNCHANGED <<lines, elements, prevLines, prevElements, lastOp, requests,
                   opCount, firstLines, rawLine, rewrites,
                   pluginVars>>

NextParse == DetectAllCallouts

SpecParse == InitParse /\ [][NextParse]_vars

----------------------------------------------------------------------------
(* The section candidates alone: getCalloutsInCurrentSection on every    *)
(* document and cursor line                                               *)

InitSection ==
    /\ InitPlugin
    /\ lines \in SectionDocs
    /\ callouts = << >>
    /\ parsed = FALSE
    /\ elements = << >>
    /\ prevLines = lines
    /\ prevElements = << >>
    /\ lastOp = NoOp
    /\ requests = << >>
    /\ opCount = 0
    /\ firstLines = lines
    /\ rawLine = << >>
    /\ rewrites = << >>

\* markdownService.getCalloutsInCurrentSection(cursor.line), the candidates
\* of scope SECTION
GetCalloutsInCurrentSection ==
    /\ ~parsed
    /\ \E cursorLine \in 0..(Len(lines) - 1) :
           /\ callouts' = getCalloutsInCurrentSection(lines, cursorLine)
           /\ lastOp' = [scope |-> SECTION, mode |-> "none", modifyMarkdown |-> TRUE,
                         cursor |-> cursorLine]
    /\ parsed' = TRUE
    /\ UNCHANGED <<lines, elements, prevLines, prevElements, requests,
                   opCount, firstLines, rawLine, rewrites,
                   pluginVars>>

NextSection == GetCalloutsInCurrentSection

SpecSection == InitSection /\ [][NextSection]_vars

----------------------------------------------------------------------------
(* The visual commands on all callouts: applyCalloutOperation(ALL, mode, false) *)

InitVisual ==
    /\ InitPlugin
    /\ lines = <<HeaderA, Quoted>>
    /\ callouts = << >>
    /\ parsed = FALSE
    /\ elements \in ElementSeqs
    /\ prevLines = lines
    /\ prevElements = elements
    /\ lastOp = NoOp
    /\ requests = << >>
    /\ opCount = 0
    /\ firstLines = lines
    /\ rawLine = << >>
    /\ rewrites = << >>

\* applyCalloutOperation(ALL, mode, false)
VisualOperationAll ==
    /\ opCount < MaxOps
    /\ \E mode \in MODES :
         /\ elements' = applyVisualOperationAll(elements, mode)
         /\ prevElements' = elements
         /\ lastOp' = [scope |-> ALL, mode |-> mode, modifyMarkdown |-> FALSE, cursor |-> 0]
    /\ opCount' = opCount + 1
    /\ UNCHANGED <<lines, callouts, parsed, prevLines, requests, firstLines,
                   rawLine, rewrites,
                   pluginVars>>

NextVisual == VisualOperationAll

SpecVisual == InitVisual /\ [][NextVisual]_vars

----------------------------------------------------------------------------
(* The commands on the text and on the rendered elements:                  *)
(* applyCalloutOperation(scope, mode, modifyMarkdown) and the              *)
(* 'editor-change' handler                                                 *)

InitOperate ==
    /\ InitPlugin
    /\ lines \in OperateDocs
    /\ callouts = << >>
    /\ parsed = FALSE
    /\ elements = renderCallouts(detectAllCallouts(lines), FALSE)
    /\ prevLines = lines
    /\ prevElements = elements
    /\ lastOp = NoOp
    /\ requests = << >>
    /\ opCount = 0
    /\ firstLines = lines
    /\ rawLine = << >>
    /\ rewrites = << >>

\* applyCalloutOperation(scope, mode, modifyMarkdown) with the cursor on cursorLine
Operation(scope, mode, modifyMarkdown, cursorLine) ==
    /\ \E r \in {applyCalloutOperation(lines, elements, scope, mode, modifyMarkdown,
                                        cursorLine)} :
           /\ lines' = r.buf
           /\ requests' = r.reqs
           /\ elements' = r.els
    /\ prevLines' = lines
    /\ prevElements' = elements
    /\ lastOp' = [scope |-> scope, mode |-> mode, modifyMarkdown |-> modifyMarkdown,
                  cursor |-> cursorLine]
    /\ opCount' = opCount + 1
    /\ UNCHANGED <<callouts, parsed, firstLines, rawLine, rewrites,
                   pluginVars>>

\* the user runs a command
InvokeCommand ==
    /\ opCount = 0
    /\ \E scope \in SCOPES, mode \in MODES, modifyMarkdown \in BOOLEAN :
           \E cursorLine \in CursorLines(scope) :
               Operation(scope, mode, modifyMarkdown, cursorLine)

\* the user runs the same command again without moving the cursor
RepeatCommand ==
    /\ opCount > 0
    /\ opCount < MaxOps
    /\ Operation(lastOp.scope, lastOp.mode, lastOp.modifyMarkdown, lastOp.cursor)

\* the 'editor-change' handler, updateDataAttributes, after the edit that
\* made the document or after the replaceRange requests of a command
EditorChange ==
    /\ opCount = 0 \/ requests # << >>
    /\ elements' = addDataAttributes(elements, detectAllCallouts(lines))
    /\ UNCHANGED <<lines, callouts, parsed, prevLines, prevElements, lastOp,
                   requests, opCount, firstLines, rawLine, rewrites,
                   pluginVars>>

NextOperate == InvokeCommand \/ RepeatCommand \/ EditorChange

SpecOperate == InitOperate /\ [][NextOperate]_vars

----------------------------------------------------------------------------
(* The header rewrite alone: updateCollapseState on every legal header *)

InitHeader ==
    /\ InitPlugin
    /\ rawLine \in LegalHeaders
    /\ lines = <<rawLine>>
    /\ callouts = << >>
    /\ parsed = FALSE
    /\ elements = << >>
    /\ prevLines = lines
    /\ prevElements = << >>
    /\ lastOp = NoOp
    /\ requests = << >>
    /\ opCount = 0
    /\ firstLines = lines
    /\ rewrites = << >>

\* the header line is parsed and rewritten with updateCollapseState(newState)
RewriteHeader ==
    /\ Len(rewrites) < MaxRewrites
    /\ \E newState \in BOOLEAN :
         LET callout == parseCallout(<<rawLine>>, 0)
             updatedLine == updateCollapseState(callout, newState)
         IN /\ rawLine' = updatedLine
            /\ lines' = <<updatedLine>>
            /\ rewrites' = Append(rewrites, [from |-> rawLine, newState |-> newState,
                                             to |-> updatedLine])
    /\ UNCHANGED <<callouts, parsed, elements, prevLines, prevElements, lastOp,
                   requests, opCount, firstLines,
                   pluginVars>>

NextHeader == RewriteHeader

SpecHeader == InitHeader /\ [][NextHeader]_vars

----------------------------------------------------------------------------
(* The sync service alone: refreshCallouts on every pair of callout lists *)

InitSync ==
    /\ lines = << >>
    /\ callouts \in MarkdownInfoSeqs
    /\ parsed = FALSE
    /\ elements \in DomInfoSeqs
    /\ prevLines = lines
    /\ prevElements = elements
    /\ lastOp = NoOp
    /\ requests = << >>
    /\ opCount = 0
    /\ firstLines = lines
    /\ rawLine = << >>
    /\ rewrites = << >>
    /\ InitPlugin

\* CalloutSyncService.refreshCallouts, on the callouts detectAllCallouts
\* returned and the elements getAllCalloutElements returned
RefreshCallouts ==
    /\ ~parsed
    /\ calloutMap' = refreshCallouts(callouts, elements)
    /\ parsed' = TRUE
    /\ UNCHANGED <<lines, callouts, elements, prevLines, prevElements, lastOp, requests,
                   opCount, firstLines, rawLine, rewrites, host, log, notices,
                   completion, commands, groupsEnabled, registeredIds, hostCommands,
                   awaiting, toggled, handlerRan, calls>>

NextSync == RefreshCallouts

SpecSync == InitSync /\ [][NextSync]_vars

----------------------------------------------------------------------------
(* The commands on a host that may be unavailable or fail *)

InitHost ==
    /\ lines \in HostDocs
    /\ callouts = << >>
    /\ parsed = FALSE
    /\ elements = renderCallouts(detectAllCallouts(lines), FALSE)
    /\ prevLines = lines
    /\ prevElements = elements
    /\ lastOp = NoOp
    /\ requests = << >>
    /\ opCount = 0
    /\ firstLines = lines
    /\ rawLine = << >>
    /\ rewrites = << >>
    /\ InitPlugin

\* the user runs a command while the host is in the conditions h
InvokeOnHost ==
    /\ opCount = 0
    /\ \E h \in HostConditions, scope \in SCOPES, mode \in MODES, modifyMarkdown \in BOOLEAN :
           \E cursorLine \in CursorLines(scope) :
               /\ \E r \in {applyCalloutOperationOnHost(lines, elements, scope, mode,
                                                         modifyMarkdown, cursorLine, h,
                                                         log, notices)} :
                      /\ lines' = r.buf
                      /\ requests' = r.reqs
                      /\ elements' = r.els
                      /\ log' = r.log
                      /\ notices' = r.notices
                      /\ completion' = r.completion
               /\ host' = h
               /\ lastOp' = [scope |-> scope, mode |-> mode,
                             modifyMarkdown |-> modifyMarkdown, cursor |-> cursorLine]
    /\ prevLines' = lines
    /\ prevElements' = elements
    /\ opCount' = opCount + 1
    /\ UNCHANGED <<callouts, parsed, firstLines, rawLine, rewrites, calloutMap,
                   commands, groupsEnabled, registeredIds, hostCommands, awaiting,
                   toggled, handlerRan, calls>>

NextHost == InvokeOnHost

SpecHost == InitHost /\ [][NextHost]_vars

----------------------------------------------------------------------------
(* The element patch alone: applyCalloutCollapseState on rendered elements *)

InitElement ==
    /\ lines = <<HeaderA, Quoted>>
    /\ callouts = << >>
    /\ parsed = FALSE
    /\ elements \in ElementSeqs
    /\ prevLines = lines
    /\ prevElements = elements
    /\ lastOp = NoOp
    /\ requests = << >>
    /\ opCount = 0
    /\ firstLines = lines
    /\ rawLine = << >>
    /\ rewrites = << >>
    /\ InitPlugin

\* domService.applyCalloutCollapseState(element, collapsed) on one of the elements
ApplyCalloutCollapseState ==
    /\ Len(calls) < MaxCalls
    /\ \E k \in 1..Len(elements), collapsed \in BOOLEAN :
           /\ elements' = [elements EXCEPT ![k] = applyCalloutCollapseState(@, collapsed)]
           /\ calls' = Append(calls, [element |-> k, collapsed |-> collapsed,
                                      before |-> elements[k],
                                      after |-> applyCalloutCollapseState(elements[k],
                                                                          collapsed)])
    /\ prevElements' = elements
    /\ UNCHANGED <<lines, callouts, parsed, prevLines, lastOp, requests, opCount,
                   firstLines, rawLine, rewrites, calloutMap, host, log, notices,
                   completion, commands, groupsEnabled, registeredIds, hostCommands,
                   awaiting, toggled, handlerRan>>

NextElement == ApplyCalloutCollapseState

SpecElement == InitElement /\ [][NextElement]_vars

----------------------------------------------------------------------------
(* The settings panel: the toggles of CalloutControlSettingsTab after onload *)

\* the state after onload: the settings merged, the table read and the
\* enabled commands registered
InitSettings ==
    /\ lines = << >>
    /\ callouts = << >>
    /\ parsed = FALSE
    /\ elements = << >>
    /\ prevLines = lines
    /\ prevElements = elements
    /\ lastOp = NoOp
    /\ requests = << >>
    /\ opCount = 0
    /\ firstLines = lines
    /\ rawLine = << >>
    /\ rewrites = << >>
    /\ calloutMap = << >>
    /\ host = NoHost
    /\ log = << >>
    /\ notices = << >>
    /\ completion = "none"
    /\ commands \in LoadedCommands
    /\ groupsEnabled = [all |-> TRUE, current |-> TRUE, section |-> TRUE]
    /\ \E r \in {registerCommands(commands, << >>, << >>)} :
           /\ registeredIds = r.registeredIds
           /\ hostCommands = r.hostCommands
    /\ awaiting = 0
    /\ toggled = 0
    /\ handlerRan = FALSE
    /\ calls = << >>

\* the onChange handler of a command toggle, up to 'await saveSettings()'
ToggleCommand ==
    /\ toggled < MaxToggles
    /\ \E k \in 1..Len(CommandTable), value \in BOOLEAN :
           /\ commands' = setCommandEnabled(commands, CommandTable[k].id, value)
           /\ groupsEnabled' = IF value
                                THEN [groupsEnabled EXCEPT ![CommandTable[k].scope] = TRUE]
                                ELSE groupsEnabled
    /\ awaiting' = awaiting + 1
    /\ toggled' = toggled + 1
    /\ UNCHANGED <<lines, callouts, parsed, elements, prevLines, prevElements, lastOp,
                   requests, opCount, firstLines, rawLine, rewrites, calloutMap, host,
                   log, notices, completion, registeredIds, hostCommands, handlerRan,
                   calls>>

\* the onChange handler of a group toggle, up to 'await saveSettings()'
ToggleGroup ==
    /\ toggled < MaxToggles
    /\ \E scope \in SCOPES, value \in BOOLEAN :
           \E r \in {setGroupEnabled(commands, groupsEnabled, scope, value,
                                     getCommandsByScope(scope))} :
               /\ commands' = r.commands
               /\ groupsEnabled' = r.groupsEnabled
    /\ awaiting' = awaiting + 1
    /\ toggled' = toggled + 1
    /\ UNCHANGED <<lines, callouts, parsed, elements, prevLines, prevElements, lastOp,
                   requests, opCount, firstLines, rawLine, rewrites, calloutMap, host,
                   log, notices, completion, registeredIds, hostCommands, handlerRan,
                   calls>>

\* an onChange handler resumes after saveSettings: registerCommands
AfterSave ==
    /\ awaiting > 0
    /\ \E r \in {registerCommands(commands, registeredIds, hostCommands)} :
           /\ registeredIds' = r.registeredIds
           /\ hostCommands' = r.hostCommands
    /\ awaiting' = awaiting - 1
    /\ UNCHANGED <<lines, callouts, parsed, elements, prevLines, prevElements, lastOp,
                   requests, opCount, firstLines, rawLine, rewrites, calloutMap, host,
                   log, notices, completion, commands, groupsEnabled, toggled,
                   handlerRan, calls>>

NextSettings == ToggleCommand \/ ToggleGroup \/ AfterSave

SpecSettings == InitSettings /\ [][NextSettings]_vars

----------------------------------------------------------------------------
(* The position tags: text edits, re-renders and the 'editor-change' handler *)

InitTags ==
    /\ lines \in TagDocs
    /\ callouts = << >>
    /\ parsed = FALSE
    /\ elements = renderCallouts(detectAllCallouts(lines), FALSE)
    /\ prevLines = lines
    /\ prevElements = elements
    /\ lastOp = NoOp
    /\ requests = << >>
    /\ opCount = 0
    /\ firstLines = lines
    /\ rawLine = << >>
    /\ rewrites = << >>
    /\ InitPlugin

\* the user edits the text; the host will fire 'editor-change'
EditText ==
    /\ \E doc \in TagDocs \ {lines} : lines' = doc
    /\ handlerRan' = FALSE
    /\ UNCHANGED <<callouts, parsed, elements, prevLines, prevElements, lastOp, requests,
                   opCount, firstLines, rawLine, rewrites, calloutMap, host, log,
                   notices, completion, commands, groupsEnabled, registeredIds,
                   hostCommands, awaiting, toggled, calls>>

\* the host renders the text again: new elements, without dataset entries
Rerender ==
    /\ elements' = renderCallouts(detectAllCallouts(lines), FALSE)
    /\ UNCHANGED <<lines, callouts, parsed, prevLines, prevElements, lastOp, requests,
                   opCount, firstLines, rawLine, rewrites, calloutMap, host, log,
                   notices, completion, commands, groupsEnabled, registeredIds,
                   hostCommands, awaiting, toggled, handlerRan, calls>>

\* the 'editor-change' handler: updateDataAttributes(editor)
UpdateDataAttributes ==
    /\ elements' = addDataAttributes(elements, detectAllCallouts(lines))
    /\ handlerRan' = TRUE
    /\ UNCHANGED <<lines, callouts, parsed, prevLines, prevElements, lastOp, requests,
                   opCount, firstLines, rawLine, rewrites, calloutMap, host, log,
                   notices, completion, commands, groupsEnabled, registeredIds,
                   hostCommands, awaiting, toggled, calls>>

NextTags == EditText \/ Rerender \/ UpdateDataAttributes

SpecTags == InitTags /\ [][NextTags]_vars

----------------------------------------------------------------------------
(* Properties of the parse tree *)

RECURSIVE Descendants(_)
\* every callout of a list of callouts, at any nesting depth
Descendants(cs) ==
    UNION {{cs[k]} \cup Descendants(cs[k].nestedCallouts) : k \in 1..Len(cs)}

\* the sibling lists of a parse: the top-level list and every nestedCallouts
SiblingLists(cs) == {cs} \cup {c.nestedCallouts : c \in Descendants(cs)}

\* C1: for every callout c at any nesting depth and every child n of c,
\* c.startLine < n.startLine <= n.endLine <= c.endLine
RangeContainment ==
    parsed =>
        \A c \in Descendants(callouts) :
            \A k \in 1..Len(c.nestedCallouts) :
                LET n == c.nestedCallouts[k] IN
                /\ c.startLine < n.startLine
                /\ n.startLine <= n.endLine
                /\ n.endLine <= c.endLine

\* C2: for every callout at any nesting depth, startLine <= endLine < number
\* of lines, and the line of the document at index startLine is its rawLine
StartLineIsHeader ==
    parsed =>
        \A c \in Descendants(callouts) :
            /\ c.startLine <= c.endLine
            /\ c.endLine < Len(lines)
            /\ At(lines, c.startLine) = c.rawLine

\* C10: in every sibling list (top level, or the nestedCallouts of one
\* parent) the callouts come in strictly increasing startLine order and no
\* two of their ranges overlap
SiblingDisjointness ==
    parsed =>
        \A s \in SiblingLists(callouts) :
            \A i, j \in 1..Len(s) :
                i < j =>
                    /\ s[i].startLine < s[j].startLine
                    /\ ~(s[i].startLine <= s[j].endLine /\ s[j].startLine <= s[i].endLine)

\* C10 witness: a parse whose top-level callout has two nested callouts
SiblingDisjointnessWitness ==
    /\ parsed
    /\ Len(callouts) = 1
    /\ Len(callouts[1].nestedCallouts) >= 2

\* C11: a three-line document of two consecutive header lines and an empty
\* line parses as two top-level callouts with startLine 0 and 1, each with
\* endLine equal to its startLine and no nested callouts
AdjacentHeadersAreSiblings ==
    (/\ parsed
     /\ Len(lines) = 3
     /\ isCalloutStartLine(lines[1])
     /\ isCalloutStartLine(lines[2])
     /\ lines[3] = Empty) =>
        /\ Len(callouts) = 2
        /\ \A k \in 1..Len(callouts) :
               /\ callouts[k].startLine = k - 1
               /\ callouts[k].endLine = k - 1
               /\ callouts[k].nestedCallouts = << >>

\* C12: the five-line document of an expanded outer header, a collapsed
\* inner header, two quoted lines and an empty line parses as one top-level
\* callout with range [0,3], expanded, with exactly one nested callout with
\* range [1,2], collapsed
NestedScenarioParse ==
    (parsed /\ lines = NestedScenario) =>
        /\ Len(callouts) = 1
        /\ callouts[1].startLine = 0
        /\ callouts[1].endLine = 3
        /\ ~callouts[1].isCollapsed
        /\ Len(callouts[1].nestedCallouts) = 1
        /\ callouts[1].nestedCallouts[1].startLine = 1
        /\ callouts[1].nestedCallouts[1].endLine = 2
        /\ callouts[1].nestedCallouts[1].isCollapsed

----------------------------------------------------------------------------
(* Properties of the markdown commands *)

\* the candidates of the last operation, parsed from the buffer it started from
CandidatesBefore == scopeCallouts(prevLines, lastOp.scope, lastOp.cursor)

\* the candidates of the same scope and cursor, parsed from the buffer now
CandidatesAfter == scopeCallouts(lines, lastOp.scope, lastOp.cursor)

CollapsedStates(cs) == [k \in 1..Len(cs) |-> cs[k].isCollapsed]

CollapsedCount(cs) == Cardinality({k \in 1..Len(cs) : cs[k].isCollapsed})

\* C3: after an operation with writeText=true the document has the same
\* number of lines; a line that changed is the header line of a candidate
\* callout, and it still carries the type tag and title it had before
WriteFrame ==
    opCount > 0 =>
        /\ Len(lines) = Len(prevLines)
        /\ \A i \in 0..(Len(prevLines) - 1) :
               At(lines, i) # At(prevLines, i) =>
                   LET old == CALLOUT_REGEX(At(prevLines, i))
                       new == CALLOUT_REGEX(At(lines, i))
                       cs == CandidatesBefore
                   IN /\ \E k \in 1..Len(cs) :
                             /\ cs[k].startLine = i
                             /\ cs[k].rawLine = At(prevLines, i)
                      /\ old.ok /\ new.ok
                      /\ new.type = old.type
                      /\ Trim(new.title) = Trim(old.title)

\* C4: after a TOGGLE with writeText=true over N >= 1 candidates of which k
\* were collapsed, the re-parsed candidates are all collapsed if k < N/2 and
\* all expanded otherwise
MajorityToggleLaw ==
    (opCount > 0 /\ lastOp.mode = TOGGLE) =>
        LET before == CandidatesBefore
            after == CandidatesAfter
        IN Len(before) >= 1 =>
               /\ Len(after) = Len(before)
               /\ \A k \in 1..Len(after) :
                      after[k].isCollapsed = (2 * CollapsedCount(before) < Len(before))

\* C6: after TOGGLE_INDIVIDUAL with writeText=true applied twice with the
\* same scope and cursor, the re-parsed candidates have the isCollapsed
\* values the candidates had before the first call
FlipInvolution ==
    (opCount = 2 /\ lastOp.mode = TOGGLE_INDIVIDUAL) =>
        CollapsedStates(CandidatesAfter) =
            CollapsedStates(scopeCallouts(firstLines, lastOp.scope, lastOp.cursor))

\* C9: a candidate whose parsed isCollapsed already equals the new state
\* computed for it gets no replaceRange request
NoChangeNoRequest ==
    opCount > 0 =>
        LET cs == CandidatesBefore IN
        \A k \in 1..Len(cs) :
            cs[k].isCollapsed = getNewState(lastOp.mode, cs, cs[k]) =>
                \A r \in 1..Len(requests) : requests[r].line # cs[k].startLine

RECURSIVE TrueSpans(_, _, _)
\* every callout of cs at any nesting depth, with its depth and the lines of
\* the document its header and its last line are on: the line numbers of a
\* top-level callout and of its children are document lines, those of a
\* deeper callout count from the header of its parent
TrueSpans(cs, base, depth) ==
    UNION {{[startLine |-> base + cs[k].startLine,
             endLine   |-> base + cs[k].endLine,
             depth     |-> depth]}
           \cup TrueSpans(cs[k].nestedCallouts,
                          IF depth = 0 THEN 0 ELSE base + cs[k].startLine,
                          depth + 1)
           : k \in 1..Len(cs)}

\* the callouts of the buffer before the last operation whose span holds the cursor
SpansAtCursor ==
    {t \in TrueSpans(detectAllCallouts(prevLines), 0, 0) :
        t.startLine <= lastOp.cursor /\ lastOp.cursor <= t.endLine}

\* C13: a CURRENT operation with writeText=true and the cursor inside some
\* callout has one candidate, the deepest callout whose span holds the
\* cursor, and every line it rewrites is the header line of that callout
CurrentIsInnermost ==
    (opCount > 0 /\ lastOp.scope = CURRENT /\ lastOp.modifyMarkdown) =>
        \A t \in SpansAtCursor :
            (\A u \in SpansAtCursor : u.depth <= t.depth) =>
                \E cs \in {CandidatesBefore} :
                    /\ Len(cs) = 1
                    /\ cs[1].startLine = t.startLine
                    /\ cs[1].endLine = t.endLine
                    /\ \A r \in 1..Len(requests) : requests[r].line = t.startLine

----------------------------------------------------------------------------
(* Properties of the section candidates *)

IsHeadingLine(i) == StartsWith(At(lines, i), "#")

\* the number of '#' characters a heading line starts with
HeadingLevel(i) ==
    Cardinality({n \in 1..Len(At(lines, i)) : \A k \in 1..n : At(lines, i)[k] = "#"})

\* the nearest heading line at or above line r, or 0 if there is none
SectionStartOf(r) ==
    IF \E i \in 0..r : IsHeadingLine(i)
    THEN CHOOSE i \in 0..r : IsHeadingLine(i) /\ \A j \in (i + 1)..r : ~IsHeadingLine(j)
    ELSE 0

\* the line before the first line after line r that satisfies stop, or the
\* last line if there is none
LineBeforeNext(r, stop(_)) ==
    IF \E i \in (r + 1)..(Len(lines) - 1) : stop(i)
    THEN (CHOOSE i \in (r + 1)..(Len(lines) - 1) :
              stop(i) /\ \A j \in (r + 1)..(i - 1) : ~stop(j)) - 1
    ELSE Len(lines) - 1

\* the callouts of cs in callouts order whose range lies in [start, end]
CalloutsWithin(cs, start, end) ==
    SelectSeq(cs, LAMBDA c : start <= c.startLine /\ c.endLine <= end)

\* C15: for a reference line r that is not a heading, the SECTION candidates
\* are the top-level callouts whose range lies in [start, end], start the
\* nearest heading at or above r (0 if none) and end the line before the
\* next heading below r (the last line if none)
SectionBoundsLaw ==
    (parsed /\ lastOp.scope = SECTION /\ ~IsHeadingLine(lastOp.cursor)) =>
        callouts = CalloutsWithin(detectAllCallouts(lines),
                                  SectionStartOf(lastOp.cursor),
                                  LineBeforeNext(lastOp.cursor, IsHeadingLine))

\* C16: when the cursor line is a heading, every top-level callout between
\* that heading and the line before the next heading strictly below it (or
\* the last line) is a SECTION candidate
HeadingCursorSection ==
    (parsed /\ lastOp.scope = SECTION /\ IsHeadingLine(lastOp.cursor)) =>
        \A c \in Range(CalloutsWithin(detectAllCallouts(lines), lastOp.cursor,
                                       LineBeforeNext(lastOp.cursor, IsHeadingLine))) :
            c \in Range(callouts)

\* C17: for a cursor line below a heading h, a heading of a lower level than
\* h does not end the section: every top-level callout between h and the
\* line before the next heading of the level of h or higher (or the last
\* line) is a SECTION candidate
SameLevelSection ==
    (/\ parsed
     /\ lastOp.scope = SECTION
     /\ ~IsHeadingLine(lastOp.cursor)
     /\ IsHeadingLine(SectionStartOf(lastOp.cursor))) =>
        \A c \in Range(CalloutsWithin(
                          detectAllCallouts(lines), SectionStartOf(lastOp.cursor),
                          LineBeforeNext(lastOp.cursor,
                              LAMBDA i : /\ IsHeadingLine(i)
                                         /\ HeadingLevel(i)
                                              <= HeadingLevel(SectionStartOf(lastOp.cursor))))) :
            c \in Range(callouts)

----------------------------------------------------------------------------
(* Properties of the visual commands on all callouts *)

\* C5: after a visual-only TOGGLE of scope ALL over N elements of which k
\* were collapsed, every element is collapsed if k < N/2 and expanded
\* otherwise, whatever the order of the elements
VisualMajorityToggle ==
    (opCount > 0 /\ lastOp.scope = ALL /\ lastOp.mode = TOGGLE /\ ~lastOp.modifyMarkdown) =>
        /\ Len(elements) = Len(prevElements)
        /\ \A k \in 1..Len(elements) :
               elements[k].isCollapsed =
                   (2 * CollapsedCount(prevElements) < Len(prevElements))

----------------------------------------------------------------------------
(* Properties of the commands on the text and on the rendered elements *)

RECURSIVE HeaderLines(_, _, _)
\* the document line of the header of every callout of cs at any depth, in
\* document order, which is the order of the rendered elements
HeaderLines(cs, base, depth) ==
    IF Len(cs) = 0 THEN << >>
    ELSE <<base + Head(cs).startLine>>
         \o HeaderLines(Head(cs).nestedCallouts,
                        IF depth = 0 THEN 0 ELSE base + Head(cs).startLine,
                        depth + 1)
         \o HeaderLines(Tail(cs), base, depth)

\* the indexes of the elements whose collapsed marker the last operation changed
ChangedElements ==
    {k \in 1..Len(elements) : elements[k].isCollapsed # prevElements[k].isCollapsed}

\* C14: a CURRENT operation resolves its target the same way for both
\* values of writeText: with writeText=false the only element it can change
\* is the one rendering the callout that writeText=true would rewrite (the
\* callout holding the cursor line, else the nearest one with its header at
\* or above it), and with no callout header at or above the cursor line it
\* changes neither the text nor any element, whatever writeText is
CurrentSameTarget ==
    (opCount = 1 /\ lastOp.scope = CURRENT) =>
        \E cs \in {scopeCallouts(prevLines, CURRENT, lastOp.cursor)} :
            /\ Len(cs) = 0 => (lines = prevLines /\ ChangedElements = {})
            /\ ~lastOp.modifyMarkdown =>
                   \A k \in ChangedElements :
                       /\ Len(cs) = 1
                       /\ HeaderLines(detectAllCallouts(prevLines), 0, 0)[k]
                              = cs[1].startLine

\* C18: an operation of scope ALL or SECTION changes top-level callouts
\* only: with writeText=true the header line of every nested callout is left
\* as it was, and with writeText=false the collapsed marker of every element
\* rendering a nested callout is left as it was
TopLevelOnly ==
    (opCount = 1 /\ lastOp.scope \in {ALL, SECTION}) =>
        /\ lastOp.modifyMarkdown =>
               \A t \in TrueSpans(detectAllCallouts(prevLines), 0, 0) :
                   t.depth > 0 => At(lines, t.startLine) = At(prevLines, t.startLine)
        /\ ~lastOp.modifyMarkdown =>
               \A k \in ChangedElements : ~prevElements[k].nested

\* C19: a visual-only operation, of any scope and mode and after any
\* operations before it, issues no replaceRange request and leaves the
\* document text as it was
VisualLeavesText ==
    (opCount > 0 /\ ~lastOp.modifyMarkdown) =>
        /\ requests = << >>
        /\ lines = prevLines
        /\ lines = firstLines

\* C19 witness: a visual-only operation run twice has changed the collapsed
\* marker of an element of a document with a callout
VisualLeavesTextWitness ==
    /\ opCount = MaxOps
    /\ ~lastOp.modifyMarkdown
    /\ ChangedElements # {}
    /\ Len(detectAllCallouts(lines)) > 0

\* C20: after an operation with writeText=true, the element rendering a
\* candidate callout has the collapsed marker equal to the new state
\* computed for that candidate
MarkdownUpdatesElements ==
    (opCount = 1 /\ lastOp.modifyMarkdown) =>
        \E cs \in {CandidatesBefore} :
            \A j \in 1..Len(cs) :
                \A k \in 1..Len(elements) :
                    HeaderLines(detectAllCallouts(prevLines), 0, 0)[k] = cs[j].startLine
                        => elements[k].isCollapsed = getNewState(lastOp.mode, cs, cs[j])

----------------------------------------------------------------------------
(* Properties of the header rewrite *)

\* the header lines of the form "> [!type]+ title"
CanonicalExpandedHeaders ==
    {MakeHeader(<<" ">>, ty, <<"+">>, <<" ">>, ti) : ty \in HeaderTypes, ti \in HeaderTitles}

\* a chain of two rewrites: updateCollapseState(true), then, on the re-parsed
\* result, updateCollapseState(false)
IsRoundTrip ==
    /\ Len(rewrites) >= 2
    /\ rewrites[1].newState
    /\ ~rewrites[2].newState

WithMarker(h, newState) ==
    LET t == CHOOSE i \in 1..Len(h) : h[i] = "]" /\ \A j \in 1..(i - 1) : h[j] # "]"
        hasMarker == t + 1 <= Len(h) /\ h[t + 1] \in {"+", "-"}
        rest == IF hasMarker THEN t + 2 ELSE t + 1
    IN SubSeq(h, 1, t) \o <<IF newState THEN "-" ELSE "+">> \o SubSeq(h, rest, Len(h))

\* C8: every rewrite of a legal header line yields the line with only the
\* marker inserted or replaced, every other character preserved
MarkerOnlyRewrite ==
    \A k \in 1..Len(rewrites) :
        rewrites[k].to = WithMarker(rewrites[k].from, rewrites[k].newState)

----------------------------------------------------------------------------
(* Properties of the position tags *)

RECURSIVE PreOrder(_)
\* the callouts of cs at any depth in document order, which is the order of
\* the rendered elements
PreOrder(cs) ==
    IF Len(cs) = 0 THEN << >>
    ELSE <<Head(cs)>> \o PreOrder(Head(cs).nestedCallouts) \o PreOrder(Tail(cs))

\* callouts with the same title, type and content
SameText(a, b) ==
    a.title = b.title /\ a.type = b.type /\ Trim(a.content) = Trim(b.content)

\* the elements of the last operation all carried a line range
AllTagged ==
    Len(prevElements) > 0 /\ \A k \in 1..Len(prevElements) : prevElements[k].tagged

\* C21: after position tagging, the elements of two distinct callouts with
\* identical title, type and content carry different line ranges, each the
\* range of its own callout, and a visual CURRENT toggle with the cursor
\* inside the second callout changes the second element and not the first
IdenticalCalloutsTarget ==
    (/\ opCount = 1 /\ lastOp.scope = CURRENT /\ ~lastOp.modifyMarkdown
     /\ lastOp.mode \in {TOGGLE, TOGGLE_INDIVIDUAL} /\ AllTagged) =>
        \E fs \in {PreOrder(detectAllCallouts(prevLines))} :
            \A i, j \in 1..Len(fs) :
                (i < j /\ SameText(fs[i], fs[j])) =>
                    /\ prevElements[i].startLine = fs[i].startLine
                    /\ prevElements[i].endLine = fs[i].endLine
                    /\ prevElements[j].startLine = fs[j].startLine
                    /\ prevElements[j].endLine = fs[j].endLine
                    /\ containsLine(fs[j], lastOp.cursor) => ChangedElements = {j}

----------------------------------------------------------------------------
(* Properties of the sync service *)

\* how well a markdown callout c fits an element e: 1 on title, type and
\* collapse state, 2 on title and type, 3 on title, 4 when one title
\* contains the other, 5 not at all
MatchTier(e, c) ==
    IF c.title = e.title /\ c.type = e.type /\ c.isCollapsed = e.isCollapsed THEN 1
    ELSE IF c.title = e.title /\ c.type = e.type THEN 2
    ELSE IF c.title = e.title THEN 3
    ELSE IF Includes(e.title, c.title) \/ Includes(c.title, e.title) THEN 4
    ELSE 5

\* C22: the matching cascade is applied in strict priority order per visual
\* element and the map has exactly one entry per element: the callout
\* recorded for an element is the first, in document order, of the callouts
\* fitting it at the best tier any callout reaches (exact, then title and
\* type, then title, then containment of titles), and no callout when none
\* fits at any tier
CascadeOrder ==
    parsed =>
        /\ Len(calloutMap) = Len(elements)
        /\ \A k \in 1..Len(elements) :
               /\ calloutMap[k].key = k - 1
               /\ calloutMap[k].value.domElement = k - 1
               /\ IF \A j \in 1..Len(callouts) : MatchTier(elements[k], callouts[j]) = 5
                  THEN calloutMap[k].value.markdownCallout = Undefined
                  ELSE \E j \in 1..Len(callouts) :
                           /\ calloutMap[k].value.markdownCallout = callouts[j]
                           /\ MatchTier(elements[k], callouts[j]) < 5
                           /\ \A i \in 1..Len(callouts) :
                                  /\ MatchTier(elements[k], callouts[i])
                                         >= MatchTier(elements[k], callouts[j])
                                  /\ (i < j => callouts[i] = callouts[j]
                                        \/ MatchTier(elements[k], callouts[i])
                                               > MatchTier(elements[k], callouts[j]))

\* C22 witness: an element took the second callout, which fits it exactly,
\* over the first, which fits it on the title only, and another element
\* took a callout whose title its own title contains
CascadeOrderWitness ==
    /\ parsed
    /\ Len(callouts) = 2 /\ Len(elements) = 2
    /\ MatchTier(elements[1], callouts[1]) = 3
    /\ MatchTier(elements[1], callouts[2]) = 1
    /\ calloutMap[1].value.markdownCallout = callouts[2]
    /\ MatchTier(elements[2], callouts[1]) = 4
    /\ calloutMap[2].value.markdownCallout = callouts[1]

----------------------------------------------------------------------------
(* Properties of the order of the rewrites *)

\* C23: the header-line rewrites of one operation are issued in strictly
\* descending startLine order: every replaceRange request is for a line
\* above the line of the request before it, and each is for the header
\* line of a candidate
DescendingRewrites ==
    opCount > 0 =>
        /\ \A i, j \in 1..Len(requests) :
               i < j => requests[i].line > requests[j].line
        /\ \E cs \in {CandidatesBefore} :
               \A i \in 1..Len(requests) :
                   \E k \in 1..Len(cs) : cs[k].startLine = requests[i].line

\* C23 witness: an operation issued two rewrites, for two candidates found
\* in ascending order
DescendingRewritesWitness ==
    /\ opCount > 0
    /\ Len(requests) >= 2
    /\ \E cs \in {CandidatesBefore} :
           /\ Len(cs) >= 2
           /\ cs[1].startLine < cs[2].startLine

----------------------------------------------------------------------------
(* Properties of the commands on a host that may be unavailable or fail *)

\* C24: an operation invoked with no active editor or no visual root
\* performs no text write and no visual change, and the condition is
\* surfaced to the user as a notice and logged
HostUnavailableSurfaced ==
    (opCount > 0 /\ (~host.editor \/ ~host.root)) =>
        /\ requests = << >>
        /\ lines = prevLines
        /\ elements = prevElements
        /\ Len(notices) > 0
        /\ Len(log) > 0

RECURSIVE ApplyRequests(_, _)
\* the buffer buf with the lines of the requests reqs replaced by their texts
ApplyRequests(buf, reqs) ==
    IF Len(reqs) = 0 THEN buf
    ELSE ApplyRequests([buf EXCEPT ![Head(reqs).line + 1] = Head(reqs).text], Tail(reqs))

\* the replaceRange requests the last operation issues on a host that does not fail
RequestsWithoutFailure ==
    IF lastOp.modifyMarkdown
    THEN applyMarkdownOperation(prevLines, lastOp.scope, lastOp.mode, lastOp.cursor).reqs
    ELSE << >>

\* C29: an exception raised by the j-th replaceRange call of an operation
\* is caught at the operation entry: the call returns to its caller, one
\* entry is logged, the replacements before the j-th stay in the buffer
\* and no request after the j-th is issued; an operation without a
\* failing call returns and logs nothing
CaughtAtEntry ==
    (opCount > 0 /\ host.editor /\ host.root) =>
        \E full \in {RequestsWithoutFailure} :
            /\ completion = "returned"
            /\ elements = prevElements \/ ~lastOp.modifyMarkdown
            /\ (host.failAt \in 1..Len(full)) =>
                   /\ Len(log) = 1
                   /\ requests = SubSeq(full, 1, host.failAt)
                   /\ lines = ApplyRequests(prevLines, SubSeq(full, 1, host.failAt - 1))
            /\ (host.failAt \notin 1..Len(full)) =>
                   /\ log = << >>
                   /\ notices = << >>
                   /\ requests = full
                   /\ lines = ApplyRequests(prevLines, full)

\* C29 witness: the second replaceRange call of an operation failed after
\* the first had changed the buffer, and the failure was logged
CaughtAtEntryWitness ==
    /\ opCount > 0
    /\ host.failAt = 2
    /\ Len(requests) = 2
    /\ lines # prevLines
    /\ Len(log) = 1
    /\ completion = "returned"

----------------------------------------------------------------------------
(* Properties of the element patch *)

\* the collapsed marker, the fold-icon marker and the content-hidden style
\* of an element agree
InLockstep(element) ==
    /\ element.foldIsCollapsed = element.isCollapsed
    /\ element.contentHidden = element.isCollapsed

\* C25: starting from elements whose three indicators agree, after any
\* sequence of applyCalloutCollapseState(element, c) calls the three
\* indicators of every element agree and equal the c of the last call on
\* that element, and a call whose c equals the collapsed marker the element
\* has changes nothing
LockstepIdempotent ==
    /\ \A k \in 1..Len(elements) : InLockstep(elements[k])
    /\ \A i \in 1..Len(calls) :
           /\ (\A j \in (i + 1)..Len(calls) : calls[j].element # calls[i].element)
                  => elements[calls[i].element].isCollapsed = calls[i].collapsed
           /\ calls[i].collapsed = calls[i].before.isCollapsed
                  => calls[i].after = calls[i].before

\* C25 witness: an element was collapsed by one call, left as it was by a
\* second call for the same state, and expanded by a third
LockstepIdempotentWitness ==
    /\ Len(calls) = 3
    /\ calls[1].element = calls[2].element /\ calls[2].element = calls[3].element
    /\ ~calls[1].before.isCollapsed /\ calls[1].collapsed
    /\ calls[2].collapsed /\ calls[2].after = calls[2].before
    /\ ~calls[3].collapsed
    /\ elements[calls[3].element] = Element(FALSE)

----------------------------------------------------------------------------
(* Properties of the command registry *)

\* the ids of the commands of the table whose enabled flag is not false
EnabledIds ==
    {fullId(CommandTable[k].id) : k \in {j \in 1..Len(CommandTable) :
        ~(CommandTable[j].id \in DOMAIN commands /\ commands[CommandTable[j].id] = FALSE)}}

\* C26: once every settings-panel action has been followed by its
\* re-registration, the commands registered with the host are exactly the
\* commands whose enabled flag is not false, and no id is registered twice
RegistryMatchesSettings ==
    awaiting = 0 =>
        /\ Range(hostCommands) = EnabledIds
        /\ Range(registeredIds) = EnabledIds
        /\ \A i, j \in 1..Len(hostCommands) : i # j => hostCommands[i] # hostCommands[j]

\* C26 witness: after a group toggle and a command toggle, each followed by
\* its re-registration, a command disabled with its group is not registered
\* and the command enabled again is
RegistryMatchesSettingsWitness ==
    /\ awaiting = 0
    /\ toggled = 2
    /\ groupsEnabled[ALL]
    /\ commands = setCommandEnabled(setGroupLoop(EmptyObject, ALL, FALSE, CommandTable),
                                    "flip-all-markdown", TRUE)
    /\ fullId("flip-all-markdown") \in Range(hostCommands)
    /\ fullId("toggle-all-markdown") \notin Range(hostCommands)
    /\ Len(hostCommands) = 12

----------------------------------------------------------------------------
(* Properties of callouts and headings *)

\* C27: no parsed callout's line range contains a heading line: a line
\* starting with '#' ends every open callout, so no callout's body crosses
\* a heading
NoHeadingInsideCallout ==
    parsed =>
        \A k \in 1..Len(callouts) :
            \A i \in callouts[k].startLine..callouts[k].endLine :
                ~StartsWith(At(lines, i), "#")

----------------------------------------------------------------------------
(* Properties of the position tags across text edits *)

\* C28: position tags never outlive the text they were derived from: once
\* the 'editor-change' handler has run after the last edit, every element
\* that carries a line range carries the range of a callout of the current
\* parse that matches it, so an element matching no callout carries none
TagsAreCurrent ==
    handlerRan =>
        \E cs \in {detectAllCallouts(lines)} :
            \A k \in 1..Len(elements) :
                elements[k].tagged =>
                    \E j \in 1..Len(cs) :
                        /\ matchesCallout(elements[k], cs[j])
                        /\ elements[k].startLine = cs[j].startLine
                        /\ elements[k].endLine = cs[j].endLine

----------------------------------------------------------------------------
(* Properties of repeated uniform toggles *)

\* C30: uniform TOGGLE alternates once it has made the set unanimous: after
\* a TOGGLE with writeText=true over a non-empty candidate set the
\* candidates, re-parsed, are as many and share one state, and after a
\* further TOGGLE with the same scope and cursor every candidate is in the
\* state opposite to the one it had before it
ToggleAlternates ==
    (opCount > 0 /\ lastOp.mode = TOGGLE) =>
        \E before \in {CandidatesBefore} :
            \E after \in {CandidatesAfter} :
                Len(before) >= 1 =>
                    /\ Len(after) = Len(before)
                    /\ \A i, j \in 1..Len(after) :
                           after[i].isCollapsed = after[j].isCollapsed
                    /\ opCount >= 2 =>
                           \A k \in 1..Len(after) :
                               after[k].isCollapsed = ~before[k].isCollapsed

====
